---- MODULE Spec2Model ----
(***************************************************************************)
(* Debounce16: a 16-bit shift-register button debouncer with a gesture     *)
(* state machine (double press, long press, click counter) layered on it.  *)
(*                                                                         *)
(* The Debounce16 object is the record `button`, one field per data        *)
(* member.  Every member function is an operator from the object (and its  *)
(* arguments) to the record [obj, result, calls]: the object afterwards,   *)
(* the value returned, and the callbacks it invoked, in order.             *)
(***************************************************************************)
EXTENDS Integers, Sequences, FiniteSets, TLC

VARIABLES
    button,     \* the Debounce16 instance (all data members)
    now,        \* the value millis() returns (unsigned long, 32 bit)
    samples,    \* every sample admitted by update(), oldest first
    log,        \* every callback invocation, [fn, at], oldest first; at is
                \* the number of samples admitted when it ran
    last        \* the last member function called and what it returned

vars == <<button, now, samples, log, last>>

----------------------------------------------------------------------------
(* Bounds of the model *)

MaxTicks == 20          \* update() calls explored by the filter sketches
MaxToggles == 4         \* level changes of the sampled input (filter sketches)
GestureTicks == 33      \* update() calls explored by the gesture sketches
GestureToggles == 4     \* level changes of the sampled input (gesture sketches)
ShortWindow == 4        \* the double-press window the sketches configure (ms)
LongThreshold == 18     \* the long-press threshold the sketches configure (ms)
ShortThreshold == 8     \* a long-press threshold shorter than the release delay (ms)
SessionToggles == 3     \* level changes of the sampled input (reconfiguring session)
FreeTicks == 17         \* update() calls explored with an undisciplined caller
FreeToggles == 1        \* level changes of the sampled input (undisciplined caller)
PrefixTicks == 17       \* update() calls before the input stays OFF for good
SettleToggles == 2      \* level changes of the sampled input (settling sketch)
RaceTicks == 8          \* timer interrupts explored by the interrupt sketch
RaceToggles == 2        \* level changes of the sampled input (interrupt sketch)
RolloverToggles == 2    \* level changes of the sampled input (rollover sketch)
ClickTicks == 32        \* update() calls explored by the click-counting sketch
HoldTicks == 6          \* samples a bounce-free input keeps a level before changing

----------------------------------------------------------------------------
(* Widths, levels and the bit patterns of Debounce16.h *)

HIGH == TRUE
LOW == FALSE
nullptr == "nullptr"

Word16 == 65536

MASK_PRESS == 63
PATTERN_PRESS == 63
MASK_RELEASE == 64512
PATTERN_RELEASE == 64512
PATTERN_DOWN == 65535
PATTERN_UP == 0

\* the release mask tests bits 15..10: a sample is 10 updates old when it
\* reaches the lowest of them
ReleaseDelay == 10

DEFAULT_WINDOW == 300
DEFAULT_THRESHOLD == 1000

STATE_IDLE == "STATE_IDLE"
STATE_PRESS_FIRST == "STATE_PRESS_FIRST"
STATE_RELEASE_FIRST == "STATE_RELEASE_FIRST"
STATE_WAIT_DOUBLE_PRESS == "STATE_WAIT_DOUBLE_PRESS"
STATE_WAIT_LONG_PRESS == "STATE_WAIT_LONG_PRESS"
STATE_LONG_PRESS_ACTIVE == "STATE_LONG_PRESS_ACTIVE"

ButtonState ==
    { STATE_IDLE, STATE_PRESS_FIRST, STATE_RELEASE_FIRST,
      STATE_WAIT_DOUBLE_PRESS, STATE_WAIT_LONG_PRESS, STATE_LONG_PRESS_ACTIVE }

\* the bitwise & of two unsigned values
RECURSIVE BitAnd(_, _)
BitAnd(a, b) ==
    IF a = 0 \/ b = 0
    THEN 0
    ELSE (a % 2) * (b % 2) + 2 * BitAnd(a \div 2, b \div 2)

\* An unsigned long is 32 bits wide: the record [hi, lo] of its two 16-bit
\* halves, so that the arithmetic wraps at 2^32 exactly as the code's does.
ULongOf(n) == [hi |-> (n \div Word16) % Word16, lo |-> n % Word16]

\* a + d for an unsigned long a and a small d >= 0
AddULong(a, d) ==
    [hi |-> (a.hi + (a.lo + d) \div Word16) % Word16, lo |-> (a.lo + d) % Word16]

\* a variant that does not wrap: 0 when a is below b
SubULongClamp(a, b) ==
    IF a.hi < b.hi \/ (a.hi = b.hi /\ a.lo < b.lo)
    THEN [hi |-> 0, lo |-> 0]
    ELSE [hi |-> a.hi - b.hi - (IF a.lo < b.lo THEN 1 ELSE 0),
          lo |-> (a.lo - b.lo) % Word16]

\* unsigned long subtraction, as in currentTime - timePress
SubULong(a, b) ==
    [hi |-> (a.hi - b.hi - (IF a.lo < b.lo THEN 1 ELSE 0)) % Word16,
     lo |-> (a.lo - b.lo) % Word16]

\* e >= v and e < v for an unsigned long e and a uint16_t v
GeULong(e, v) == e.hi > 0 \/ e.lo >= v
LtULong(e, v) == e.hi = 0 /\ e.lo < v

----------------------------------------------------------------------------
(* Helper methods *)

\* triggerCallback: the callbacks invoked (none for a null pointer)
triggerCallback(callback) ==
    IF callback # nullptr THEN <<callback>> ELSE <<>>

\* variant: the pin level taken as read, whatever the active level
readButtonRawPlain(b, stateRaw) == stateRaw

\* readButtonRaw: the pin level stateRaw seen through the active level
readButtonRaw(b, stateRaw) ==
    IF b.levelActive = HIGH THEN stateRaw ELSE ~stateRaw

\* resetState
\* variant: a reset that keeps the click count
resetStateKeepCount(b) ==
    [b EXCEPT !.stateButton = STATE_IDLE,
              !.flagDoublePressed = FALSE,
              !.flagLongPressed = FALSE]

\* a variant that leaves the long-press flag alone
resetStateKeepLong(b) ==
    [b EXCEPT !.stateButton = STATE_IDLE,
              !.countClick = 0,
              !.flagDoublePressed = FALSE]

resetState(b) ==
    [b EXCEPT !.stateButton = STATE_IDLE,
              !.countClick = 0,
              !.flagDoublePressed = FALSE,
              !.flagLongPressed = FALSE]

----------------------------------------------------------------------------
(* Core debouncing methods *)

\* variant: the press mask one bit short (0x001F)
PressPatternFive(h) == BitAnd(h, 31) = 31

PressPattern(h) == BitAnd(h, MASK_PRESS) = PATTERN_PRESS

\* variant: the release mask one bit low (0x7E00)
ReleasePatternLow(h) == BitAnd(h, 32256) = 32256

ReleasePattern(h) == BitAnd(h, MASK_RELEASE) = PATTERN_RELEASE

isPressed(b) ==
    IF PressPattern(b.historyButton) /\ ~b.flagPressProcessed
    THEN [obj |-> [b EXCEPT !.flagPressProcessed = TRUE],
          result |-> TRUE,
          calls |-> triggerCallback(b.callbackPress)]
    ELSE IF ~PressPattern(b.historyButton)
    THEN [obj |-> [b EXCEPT !.flagPressProcessed = FALSE],
          result |-> FALSE, calls |-> <<>>]
    ELSE [obj |-> b, result |-> FALSE, calls |-> <<>>]

isReleased(b) ==
    IF ReleasePattern(b.historyButton) /\ ~b.flagReleaseProcessed
    THEN [obj |-> [b EXCEPT !.flagReleaseProcessed = TRUE],
          result |-> TRUE,
          calls |-> triggerCallback(b.callbackRelease)]
    ELSE IF ~ReleasePattern(b.historyButton)
    THEN [obj |-> [b EXCEPT !.flagReleaseProcessed = FALSE],
          result |-> FALSE, calls |-> <<>>]
    ELSE [obj |-> b, result |-> FALSE, calls |-> <<>>]

isDown(b) ==
    [obj |-> b, result |-> (b.historyButton = PATTERN_DOWN), calls |-> <<>>]

isUp(b) ==
    [obj |-> b, result |-> (b.historyButton = PATTERN_UP), calls |-> <<>>]

----------------------------------------------------------------------------
(* Advanced feature configuration *)

\* variant: disabling also returns the machine to Idle
enableDoublePressDetectionReset(b, enable) ==
    LET b1 == [b EXCEPT !.flagEnableDoublePress = enable]
    IN  [obj |-> IF ~enable
                 THEN [b1 EXCEPT !.countClick = 0, !.flagDoublePressed = FALSE,
                                 !.stateButton = STATE_IDLE]
                 ELSE b1,
         result |-> FALSE, calls |-> <<>>]

enableDoublePressDetection(b, enable) ==
    LET b1 == [b EXCEPT !.flagEnableDoublePress = enable]
    IN  [obj |-> IF ~enable
                 THEN [b1 EXCEPT !.countClick = 0, !.flagDoublePressed = FALSE]
                 ELSE b1,
         result |-> FALSE, calls |-> <<>>]

setDoublePressWindow(b, windowMs) ==
    [obj |-> [b EXCEPT !.windowDoublePress = windowMs % Word16],
     result |-> FALSE, calls |-> <<>>]

enableLongPressDetection(b, enable) ==
    LET b1 == [b EXCEPT !.flagEnableLongPress = enable]
    IN  [obj |-> IF ~enable THEN [b1 EXCEPT !.flagLongPressed = FALSE] ELSE b1,
         result |-> FALSE, calls |-> <<>>]

setLongPressThreshold(b, thresholdMs) ==
    [obj |-> [b EXCEPT !.thresholdLongPress = thresholdMs % Word16],
     result |-> FALSE, calls |-> <<>>]

----------------------------------------------------------------------------
(* Advanced feature queries *)

\* variant: a read that does not clear the flag
isDoublePressedKeep(b) ==
    [obj |-> b, result |-> b.flagDoublePressed, calls |-> <<>>]

isDoublePressed(b) ==
    [obj |-> IF b.flagDoublePressed
             THEN [b EXCEPT !.flagDoublePressed = FALSE]
             ELSE b,
     result |-> b.flagDoublePressed, calls |-> <<>>]

isLongPressed(b) ==
    [obj |-> b, result |-> b.flagLongPressed, calls |-> <<>>]

\* variant: the counter reset in every state
getClickCountAlways(b) ==
    [obj |-> [b EXCEPT !.countClick = 0], result |-> b.countClick, calls |-> <<>>]

getClickCount(b) ==
    [obj |-> IF b.countClick > 0 /\ b.stateButton = STATE_IDLE
             THEN [b EXCEPT !.countClick = 0]
             ELSE b,
     result |-> b.countClick, calls |-> <<>>]

----------------------------------------------------------------------------
(* Callback registration *)

onPress(b, callback) ==
    [obj |-> [b EXCEPT !.callbackPress = callback],
     result |-> FALSE, calls |-> <<>>]

onRelease(b, callback) ==
    [obj |-> [b EXCEPT !.callbackRelease = callback],
     result |-> FALSE, calls |-> <<>>]

onDoublePress(b, callback) ==
    [obj |-> [b EXCEPT !.callbackDoublePress = callback],
     result |-> FALSE, calls |-> <<>>]

onLongPressStart(b, callback) ==
    [obj |-> [b EXCEPT !.callbackLongPressStart = callback],
     result |-> FALSE, calls |-> <<>>]

onLongPressEnd(b, callback) ==
    [obj |-> [b EXCEPT !.callbackLongPressEnd = callback],
     result |-> FALSE, calls |-> <<>>]

----------------------------------------------------------------------------
(* updateStateMachine, one operator per case of the switch.  Each returns  *)
(* [obj, calls]; currentTime is the millis() value read on entry.          *)

caseIdle(b, currentTime) ==
    LET p == isPressed(b)
    IN  [obj |-> IF p.result
                 THEN [p.obj EXCEPT !.timePress = currentTime,
                                    !.countClick = 1,
                                    !.stateButton = STATE_PRESS_FIRST]
                 ELSE p.obj,
         calls |-> p.calls]

\* variant: the release timestamp not recorded
casePressFirstNoStamp(b, currentTime) ==
    LET timeElapsed == SubULong(currentTime, b.timePress)
        long == /\ b.flagEnableLongPress
                /\ GeULong(timeElapsed, b.thresholdLongPress)
                /\ ~b.flagLongPressed
        b1 == IF long
              THEN [b EXCEPT !.flagLongPressed = TRUE,
                             !.stateButton = STATE_LONG_PRESS_ACTIVE]
              ELSE b
        c1 == IF long THEN triggerCallback(b.callbackLongPressStart) ELSE <<>>
        r == isReleased(b1)
        b2 == r.obj
    IN  [obj |-> IF r.result
                 THEN IF b2.flagLongPressed
                      THEN resetState(b2)
                      ELSE IF b2.flagEnableDoublePress
                      THEN [b2 EXCEPT !.stateButton = STATE_RELEASE_FIRST]
                      ELSE resetState(b2)
                 ELSE r.obj,
         calls |-> c1 \o r.calls]

\* variant: the release moving on to the reserved waiting state
casePressFirstWaiting(b, currentTime) ==
    LET timeElapsed == SubULong(currentTime, b.timePress)
        long == /\ b.flagEnableLongPress
                /\ GeULong(timeElapsed, b.thresholdLongPress)
                /\ ~b.flagLongPressed
        b1 == IF long
              THEN [b EXCEPT !.flagLongPressed = TRUE,
                             !.stateButton = STATE_LONG_PRESS_ACTIVE]
              ELSE b
        c1 == IF long THEN triggerCallback(b.callbackLongPressStart) ELSE <<>>
        r == isReleased(b1)
        b2 == [r.obj EXCEPT !.timeEvent = currentTime]
    IN  [obj |-> IF r.result
                 THEN IF b2.flagLongPressed
                      THEN resetState(b2)
                      ELSE IF b2.flagEnableDoublePress
                      THEN [b2 EXCEPT !.stateButton = STATE_WAIT_DOUBLE_PRESS]
                      ELSE resetState(b2)
                 ELSE r.obj,
         calls |-> c1 \o r.calls]

casePressFirst(b, currentTime) ==
    LET timeElapsed == SubULong(currentTime, b.timePress)
        long == /\ b.flagEnableLongPress
                /\ GeULong(timeElapsed, b.thresholdLongPress)
                /\ ~b.flagLongPressed
        b1 == IF long
              THEN [b EXCEPT !.flagLongPressed = TRUE,
                             !.stateButton = STATE_LONG_PRESS_ACTIVE]
              ELSE b
        c1 == IF long THEN triggerCallback(b.callbackLongPressStart) ELSE <<>>
        r == isReleased(b1)
        b2 == [r.obj EXCEPT !.timeEvent = currentTime]
    IN  [obj |-> IF r.result
                 THEN IF b2.flagLongPressed
                      THEN resetState(b2)
                      ELSE IF b2.flagEnableDoublePress
                      THEN [b2 EXCEPT !.stateButton = STATE_RELEASE_FIRST]
                      ELSE resetState(b2)
                 ELSE r.obj,
         calls |-> c1 \o r.calls]

\* variant: a press edge counted as the second click whenever it comes
caseReleaseFirstAnyTime(b, currentTime) ==
    LET timeElapsed == SubULong(currentTime, b.timeEvent)
        p == isPressed(b)
        b1 == p.obj
    IN  IF p.result
        THEN [obj |-> [b1 EXCEPT !.countClick = 2,
                                 !.timePress = currentTime,
                                 !.stateButton = STATE_PRESS_FIRST],
              calls |-> p.calls]
        ELSE IF GeULong(timeElapsed, b1.windowDoublePress)
        THEN IF b1.countClick = 2
             THEN [obj |-> resetState([b1 EXCEPT !.flagDoublePressed = TRUE]),
                   calls |-> p.calls \o triggerCallback(b1.callbackDoublePress)]
             ELSE [obj |-> resetState(b1), calls |-> p.calls]
        ELSE [obj |-> b1, calls |-> p.calls]

\* variant: the double-press handler invoked for a single click too
caseReleaseFirstEager(b, currentTime) ==
    LET timeElapsed == SubULong(currentTime, b.timeEvent)
        p == isPressed(b)
        b1 == p.obj
    IN  IF p.result /\ LtULong(timeElapsed, b1.windowDoublePress)
        THEN [obj |-> [b1 EXCEPT !.countClick = 2,
                                 !.timePress = currentTime,
                                 !.stateButton = STATE_PRESS_FIRST],
              calls |-> p.calls]
        ELSE IF GeULong(timeElapsed, b1.windowDoublePress)
        THEN IF b1.countClick >= 1
             THEN [obj |-> resetState([b1 EXCEPT !.flagDoublePressed = TRUE]),
                   calls |-> p.calls \o triggerCallback(b1.callbackDoublePress)]
             ELSE [obj |-> resetState(b1), calls |-> p.calls]
        ELSE [obj |-> b1, calls |-> p.calls]

\* variant: the second press counted by incrementing the counter
caseReleaseFirstCounting(b, currentTime) ==
    LET timeElapsed == SubULong(currentTime, b.timeEvent)
        p == isPressed(b)
        b1 == p.obj
    IN  IF p.result /\ LtULong(timeElapsed, b1.windowDoublePress)
        THEN [obj |-> [b1 EXCEPT !.countClick = b1.countClick + 1,
                                 !.timePress = currentTime,
                                 !.stateButton = STATE_PRESS_FIRST],
              calls |-> p.calls]
        ELSE IF GeULong(timeElapsed, b1.windowDoublePress)
        THEN IF b1.countClick = 2
             THEN [obj |-> resetState([b1 EXCEPT !.flagDoublePressed = TRUE]),
                   calls |-> p.calls \o triggerCallback(b1.callbackDoublePress)]
             ELSE [obj |-> resetState(b1), calls |-> p.calls]
        ELSE [obj |-> b1, calls |-> p.calls]

caseReleaseFirst(b, currentTime) ==
    LET timeElapsed == SubULong(currentTime, b.timeEvent)
        p == isPressed(b)
        b1 == p.obj
    IN  IF p.result /\ LtULong(timeElapsed, b1.windowDoublePress)
        THEN [obj |-> [b1 EXCEPT !.countClick = 2,
                                 !.timePress = currentTime,
                                 !.stateButton = STATE_PRESS_FIRST],
              calls |-> p.calls]
        ELSE IF GeULong(timeElapsed, b1.windowDoublePress)
        THEN IF b1.countClick = 2
             THEN [obj |-> resetState([b1 EXCEPT !.flagDoublePressed = TRUE]),
                   calls |-> p.calls \o triggerCallback(b1.callbackDoublePress)]
             ELSE [obj |-> resetState(b1), calls |-> p.calls]
        ELSE [obj |-> b1, calls |-> p.calls]

caseLongPressActive(b, currentTime) ==
    LET r == isReleased(b)
    IN  IF r.result
        THEN [obj |-> resetState([r.obj EXCEPT !.flagLongPressed = FALSE]),
              calls |-> r.calls \o triggerCallback(r.obj.callbackLongPressEnd)]
        ELSE [obj |-> r.obj, calls |-> r.calls]

updateStateMachine(b, currentTime) ==
    CASE b.stateButton = STATE_IDLE -> caseIdle(b, currentTime)
      [] b.stateButton = STATE_PRESS_FIRST -> casePressFirst(b, currentTime)
      [] b.stateButton = STATE_RELEASE_FIRST -> caseReleaseFirst(b, currentTime)
      [] b.stateButton = STATE_LONG_PRESS_ACTIVE -> caseLongPressActive(b, currentTime)
      [] b.stateButton = STATE_WAIT_DOUBLE_PRESS -> [obj |-> b, calls |-> <<>>]
      [] b.stateButton = STATE_WAIT_LONG_PRESS -> [obj |-> b, calls |-> <<>>]

\* variant: the newest sample entering at bit 15, bit 0 lost
ShiftInTop(h, currentState) ==
    h \div 2 + (IF currentState THEN 32768 ELSE 0)

\* variant: the shift without the truncation to 16 bits
ShiftInWide(h, currentState) ==
    2 * h + (IF currentState THEN 1 ELSE 0)

\* the shift of update(): the newest sample enters at bit 0, bit 15 is lost
ShiftIn(h, currentState) ==
    (2 * h + (IF currentState THEN 1 ELSE 0)) % Word16

\* variant: the state machine run whether or not a feature is enabled
updateAlways(b, stateRaw, currentTime) ==
    LET currentState == readButtonRaw(b, stateRaw)
        b1 == [b EXCEPT !.historyButton = ShiftIn(b.historyButton, currentState)]
        m == updateStateMachine(b1, currentTime)
    IN  [obj |-> m.obj, result |-> FALSE, calls |-> m.calls]

\* update(): stateRaw is what digitalRead returns, currentTime what millis()
\* returns if the state machine reads it
update(b, stateRaw, currentTime) ==
    LET currentState == readButtonRaw(b, stateRaw)
        b1 == [b EXCEPT !.historyButton = ShiftIn(b.historyButton, currentState)]
    IN  IF b1.flagEnableDoublePress \/ b1.flagEnableLongPress
        THEN LET m == updateStateMachine(b1, currentTime)
             IN  [obj |-> m.obj, result |-> FALSE, calls |-> m.calls]
        ELSE [obj |-> b1, result |-> FALSE, calls |-> <<>>]

----------------------------------------------------------------------------
(* Construction *)

\* variant: the history initialised to the DOWN pattern
Debounce16Down(pin, activeLevel) ==
    [ pinButton |-> pin,
      levelActive |-> activeLevel,
      historyButton |-> PATTERN_DOWN,
      stateButton |-> STATE_IDLE,
      timeEvent |-> ULongOf(0),
      timePress |-> ULongOf(0),
      windowDoublePress |-> DEFAULT_WINDOW,
      thresholdLongPress |-> DEFAULT_THRESHOLD,
      flagEnableDoublePress |-> FALSE,
      flagEnableLongPress |-> FALSE,
      countClick |-> 0,
      flagDoublePressed |-> FALSE,
      flagLongPressed |-> FALSE,
      flagPressProcessed |-> FALSE,
      flagReleaseProcessed |-> FALSE,
      callbackPress |-> nullptr,
      callbackRelease |-> nullptr,
      callbackDoublePress |-> nullptr,
      callbackLongPressStart |-> nullptr,
      callbackLongPressEnd |-> nullptr ]

Debounce16(pin, activeLevel) ==
    [ pinButton |-> pin,
      levelActive |-> activeLevel,
      historyButton |-> PATTERN_UP,
      stateButton |-> STATE_IDLE,
      timeEvent |-> ULongOf(0),
      timePress |-> ULongOf(0),
      windowDoublePress |-> DEFAULT_WINDOW,
      thresholdLongPress |-> DEFAULT_THRESHOLD,
      flagEnableDoublePress |-> FALSE,
      flagEnableLongPress |-> FALSE,
      countClick |-> 0,
      flagDoublePressed |-> FALSE,
      flagLongPressed |-> FALSE,
      flagPressProcessed |-> FALSE,
      flagReleaseProcessed |-> FALSE,
      callbackPress |-> nullptr,
      callbackRelease |-> nullptr,
      callbackDoublePress |-> nullptr,
      callbackLongPressStart |-> nullptr,
      callbackLongPressEnd |-> nullptr ]

PIN_BUTTON == 17

Init ==
    /\ button = Debounce16(PIN_BUTTON, HIGH)
    /\ now = ULongOf(0)
    /\ samples = <<>>
    /\ log = <<>>
    /\ last = [op |-> "Debounce16", result |-> FALSE]

----------------------------------------------------------------------------
(* Calls of the member functions *)

\* the callbacks `calls` stamped with the number of samples admitted so far
Stamp(calls, at) == [i \in 1..Len(calls) |-> [fn |-> calls[i], at |-> at]]

\* a call that does not sample: r is what the member function computed
Call(op, r) ==
    /\ button' = r.obj
    /\ log' = log \o Stamp(r.calls, Len(samples))
    /\ last' = [op |-> op, result |-> r.result]
    /\ UNCHANGED <<now, samples>>

\* update() called dt ms after the previous call, the pin reading stateRaw
UpdateCall(stateRaw, dt) ==
    LET currentTime == AddULong(now, dt)
        r == update(button, stateRaw, currentTime)
    IN  /\ now' = currentTime
        /\ button' = r.obj
        /\ samples' = Append(samples, readButtonRaw(button, stateRaw))
        /\ log' = log \o Stamp(r.calls, Len(samples) + 1)
        /\ last' = [op |-> "update", result |-> FALSE]

IsPressedCall == Call("isPressed", isPressed(button))
IsReleasedCall == Call("isReleased", isReleased(button))
IsDownCall == Call("isDown", isDown(button))
IsUpCall == Call("isUp", isUp(button))
IsDoublePressedCall == Call("isDoublePressed", isDoublePressed(button))
IsLongPressedCall == Call("isLongPressed", isLongPressed(button))
GetClickCountCall == Call("getClickCount", getClickCount(button))

EnableDoublePressDetectionCall(enable) ==
    Call("enableDoublePressDetection", enableDoublePressDetection(button, enable))
SetDoublePressWindowCall(windowMs) ==
    Call("setDoublePressWindow", setDoublePressWindow(button, windowMs))
EnableLongPressDetectionCall(enable) ==
    Call("enableLongPressDetection", enableLongPressDetection(button, enable))
SetLongPressThresholdCall(thresholdMs) ==
    Call("setLongPressThreshold", setLongPressThreshold(button, thresholdMs))

OnPressCall(callback) == Call("onPress", onPress(button, callback))
OnReleaseCall(callback) == Call("onRelease", onRelease(button, callback))
OnDoublePressCall(callback) == Call("onDoublePress", onDoublePress(button, callback))
OnLongPressStartCall(callback) ==
    Call("onLongPressStart", onLongPressStart(button, callback))
OnLongPressEndCall(callback) ==
    Call("onLongPressEnd", onLongPressEnd(button, callback))

----------------------------------------------------------------------------
(* What has been sampled so far *)

\* the level changes in the sample sequence s, the input being OFF before
\* the first sample
RECURSIVE Toggles(_)
Toggles(s) ==
    IF s = <<>>
    THEN 0
    ELSE LET n == Len(s)
             before == IF n = 1 THEN FALSE ELSE s[n - 1]
         IN  Toggles(SubSeq(s, 1, n - 1)) + (IF s[n] # before THEN 1 ELSE 0)

\* the length of the run of ON samples that ends the sequence s
RECURSIVE TrailingOn(_)
TrailingOn(s) ==
    IF s = <<>> \/ ~s[Len(s)]
    THEN 0
    ELSE 1 + TrailingOn(SubSeq(s, 1, Len(s) - 1))

\* the number of ON samples in s
OnCount(s) == Cardinality({i \in 1..Len(s) : s[i]})

\* the input may read stateRaw next: at most maxTicks samples, maxToggles changes
CanSample(stateRaw, maxTicks, maxToggles) ==
    /\ Len(samples) < maxTicks
    /\ Toggles(Append(samples, readButtonRaw(button, stateRaw))) <= maxToggles

----------------------------------------------------------------------------
(* setup(): the registrations and the configuration, in a fixed order.     *)
(* The two feature blocks are optional.                                    *)

RegisterPress ==
    last.op = "Debounce16" /\ OnPressCall("onButtonPress")
RegisterRelease ==
    last.op = "onPress" /\ OnReleaseCall("onButtonRelease")
RegisterDoublePress ==
    last.op = "onRelease" /\ OnDoublePressCall("onButtonDoublePress")
RegisterLongPressStart ==
    last.op = "onDoublePress" /\ OnLongPressStartCall("onButtonLongPressStart")
RegisterLongPressEnd ==
    last.op = "onLongPressStart" /\ OnLongPressEndCall("onButtonLongPressEnd")

SetupDoublePress ==
    last.op = "onLongPressEnd" /\ EnableDoublePressDetectionCall(TRUE)
SetupWindow ==
    last.op = "enableDoublePressDetection" /\ SetDoublePressWindowCall(ShortWindow)
SetupLongPress ==
    /\ last.op \in {"onLongPressEnd", "setDoublePressWindow"}
    /\ EnableLongPressDetectionCall(TRUE)
SetupThreshold ==
    last.op = "enableLongPressDetection" /\ SetLongPressThresholdCall(LongThreshold)

Register ==
    \/ RegisterPress
    \/ RegisterRelease
    \/ RegisterDoublePress
    \/ RegisterLongPressStart
    \/ RegisterLongPressEnd

\* setup() may return after any complete block
SetupDone == last.op \in {"onLongPressEnd", "setDoublePressWindow", "setLongPressThreshold"}

----------------------------------------------------------------------------
(* The polling sketch (examples/DebounceSimple): no setup, features        *)
(* disabled; every loop pass updates and then polls the four core queries. *)

FilterUpdate ==
    /\ last.op \in {"Debounce16", "isUp"}
    /\ \E stateRaw \in BOOLEAN :
          CanSample(stateRaw, MaxTicks, MaxToggles) /\ UpdateCall(stateRaw, 1)
FilterIsPressed == last.op = "update" /\ IsPressedCall
FilterIsReleased == last.op = "isPressed" /\ IsReleasedCall
FilterIsDown == last.op = "isReleased" /\ IsDownCall
FilterIsUp == last.op = "isDown" /\ IsUpCall

NextFilter ==
    \/ FilterUpdate
    \/ FilterIsPressed
    \/ FilterIsReleased
    \/ FilterIsDown
    \/ FilterIsUp

SpecFilter == Init /\ [][NextFilter]_vars

----------------------------------------------------------------------------
(* Free polling: features disabled, update() and isPressed() in any order. *)

AnyUpdate ==
    \E stateRaw \in BOOLEAN :
        CanSample(stateRaw, MaxTicks, MaxToggles) /\ UpdateCall(stateRaw, 1)
AnyIsPressed == last.op \in {"Debounce16", "update", "isPressed"} /\ IsPressedCall

NextAny == AnyUpdate \/ AnyIsPressed

SpecAny == Init /\ [][NextAny]_vars

----------------------------------------------------------------------------
(* The callback sketch (README, Using Callbacks): setup registers the      *)
(* callbacks, loop only calls update().                                    *)

CallbackUpdate ==
    /\ SetupDone \/ last.op = "update"
    /\ \E stateRaw \in BOOLEAN :
          CanSample(stateRaw, MaxTicks, MaxToggles) /\ UpdateCall(stateRaw, 1)

NextCallbacks ==
    \/ Register
    \/ SetupDoublePress
    \/ SetupWindow
    \/ SetupLongPress
    \/ SetupThreshold
    \/ CallbackUpdate

SpecCallbacks == Init /\ [][NextCallbacks]_vars

----------------------------------------------------------------------------
(* The core queries beside the gesture layer: setup as above, loop calls   *)
(* update() and then isPressed().                                          *)

CoreUpdate ==
    /\ SetupDone \/ last.op = "isPressed"
    /\ \E stateRaw \in BOOLEAN :
          CanSample(stateRaw, MaxTicks, MaxToggles) /\ UpdateCall(stateRaw, 1)
CoreIsPressed == last.op = "update" /\ IsPressedCall

NextCore ==
    \/ Register
    \/ SetupDoublePress
    \/ SetupWindow
    \/ SetupLongPress
    \/ SetupThreshold
    \/ CoreUpdate
    \/ CoreIsPressed

SpecCore == Init /\ [][NextCore]_vars

----------------------------------------------------------------------------
(* The double-press sketch: setup enables double-press detection and sets  *)
(* the window; loop calls update(), isDoublePressed(), getClickCount().    *)

DoubleUpdate ==
    /\ last.op \in {"setDoublePressWindow", "getClickCount"}
    /\ \E stateRaw \in BOOLEAN :
          CanSample(stateRaw, GestureTicks, GestureToggles) /\ UpdateCall(stateRaw, 1)
DoubleIsDoublePressed == last.op = "update" /\ IsDoublePressedCall
DoubleGetClickCount == last.op = "isDoublePressed" /\ GetClickCountCall

NextDouble ==
    \/ Register
    \/ SetupDoublePress
    \/ SetupWindow
    \/ DoubleUpdate
    \/ DoubleIsDoublePressed
    \/ DoubleGetClickCount

SpecDouble == Init /\ [][NextDouble]_vars

----------------------------------------------------------------------------
(* The long-press sketch (README, Long Press Detection): setup enables     *)
(* long-press detection and sets the threshold; loop calls update() and    *)
(* isLongPressed().                                                        *)

LongUpdate ==
    /\ last.op \in {"setLongPressThreshold", "isLongPressed"}
    /\ \E stateRaw \in BOOLEAN :
          CanSample(stateRaw, GestureTicks, GestureToggles) /\ UpdateCall(stateRaw, 1)
LongIsLongPressed == last.op = "update" /\ IsLongPressedCall

NextLong ==
    \/ Register
    \/ SetupLongPress
    \/ SetupThreshold
    \/ LongUpdate
    \/ LongIsLongPressed

SpecLong == Init /\ [][NextLong]_vars

----------------------------------------------------------------------------
(* A session that reconfigures the button while it runs: setup registers   *)
(* the callbacks and enables long-press detection (threshold LongThreshold *)
(* or ShortThreshold), with or without double-press detection before it;   *)
(* loop calls update() and may then read the click counter, or disable one *)
(* of the two features while the other one stays enabled.                  *)

SetupShortThreshold ==
    last.op = "enableLongPressDetection" /\ SetLongPressThresholdCall(ShortThreshold)

SessionSetup ==
    /\ samples = <<>>
    /\ \/ Register
       \/ SetupDoublePress
       \/ SetupWindow
       \/ SetupLongPress
       \/ SetupThreshold
       \/ SetupShortThreshold

SessionUpdate ==
    /\ \/ last.op \in {"setLongPressThreshold", "update", "getClickCount"}
       \/ last.op = "enableDoublePressDetection" /\ ~button.flagEnableDoublePress
       \/ last.op = "enableLongPressDetection" /\ ~button.flagEnableLongPress
    /\ \E stateRaw \in BOOLEAN :
          CanSample(stateRaw, MaxTicks, SessionToggles) /\ UpdateCall(stateRaw, 1)

SessionGetClickCount == last.op = "update" /\ GetClickCountCall

SessionDisableDoublePress ==
    /\ last.op = "update"
    /\ button.flagEnableDoublePress /\ button.flagEnableLongPress
    /\ EnableDoublePressDetectionCall(FALSE)

SessionDisableLongPress ==
    /\ last.op = "update"
    /\ button.flagEnableDoublePress /\ button.flagEnableLongPress
    /\ EnableLongPressDetectionCall(FALSE)

NextSession ==
    \/ SessionSetup
    \/ SessionUpdate
    \/ SessionGetClickCount
    \/ SessionDisableDoublePress
    \/ SessionDisableLongPress

SpecSession == Init /\ [][NextSession]_vars

----------------------------------------------------------------------------
(* The queries and the configuration calls on their own: the object is     *)
(* taken as a caller, or a handler invoked in the middle of update(), may  *)
(* find it, and the calls are made in any order, with no update() between  *)
(* them.  All five handlers are registered.                                *)

Registered(b) ==
    [b EXCEPT !.callbackPress = "onButtonPress",
              !.callbackRelease = "onButtonRelease",
              !.callbackDoublePress = "onButtonDoublePress",
              !.callbackLongPressStart = "onButtonLongPressStart",
              !.callbackLongPressEnd = "onButtonLongPressEnd"]

\* Idle always comes with a zero click count (resetState) and the other
\* states are entered with one or two clicks counted; STATE_RELEASE_FIRST is
\* entered only with double-press detection enabled, and
\* STATE_LONG_PRESS_ACTIVE only together with the long-press flag; the
\* double-press flag is set only while the double-press handler runs, in
\* STATE_RELEASE_FIRST with two clicks counted.
Objects ==
    { b \in { [Registered(Debounce16(PIN_BUTTON, HIGH)) EXCEPT
                  !.historyButton = h,
                  !.stateButton = st,
                  !.countClick = n,
                  !.flagDoublePressed = f[1],
                  !.flagLongPressed = f[2],
                  !.flagEnableDoublePress = f[3],
                  !.flagEnableLongPress = f[4],
                  !.flagPressProcessed = f[5],
                  !.flagReleaseProcessed = f[6],
                  !.timePress = ULongOf(18),
                  !.timeEvent = ULongOf(16)] :
               h \in {PATTERN_UP, PATTERN_PRESS, PATTERN_RELEASE, PATTERN_DOWN},
               st \in {STATE_IDLE, STATE_PRESS_FIRST, STATE_RELEASE_FIRST,
                       STATE_LONG_PRESS_ACTIVE},
               n \in 0..2,
               f \in [1..6 -> BOOLEAN] } :
        /\ b.stateButton = STATE_IDLE <=> b.countClick = 0
        /\ b.stateButton = STATE_RELEASE_FIRST => b.flagEnableDoublePress
        /\ b.stateButton = STATE_LONG_PRESS_ACTIVE
           <=> b.flagLongPressed /\ b.flagEnableLongPress
        /\ b.flagDoublePressed
           => b.stateButton = STATE_RELEASE_FIRST /\ b.countClick = 2
        /\ b.flagEnableDoublePress \/ b.flagEnableLongPress }

InitObject ==
    /\ button \in Objects
    /\ now = ULongOf(20)
    /\ samples = <<>>
    /\ log = <<>>
    /\ last = [op |-> "update", result |-> FALSE]

ObjectIsDoublePressed == IsDoublePressedCall
ObjectIsLongPressed == IsLongPressedCall
ObjectGetClickCount == GetClickCountCall
ObjectEnableDoublePress == \E enable \in BOOLEAN : EnableDoublePressDetectionCall(enable)
ObjectSetWindow ==
    \E windowMs \in {ShortWindow, DEFAULT_WINDOW} : SetDoublePressWindowCall(windowMs)
ObjectEnableLongPress == \E enable \in BOOLEAN : EnableLongPressDetectionCall(enable)
ObjectSetThreshold ==
    \E thresholdMs \in {ShortThreshold, DEFAULT_THRESHOLD} :
        SetLongPressThresholdCall(thresholdMs)

NextObject ==
    \/ ObjectIsDoublePressed
    \/ ObjectIsLongPressed
    \/ ObjectGetClickCount
    \/ ObjectEnableDoublePress
    \/ ObjectSetWindow
    \/ ObjectEnableLongPress
    \/ ObjectSetThreshold

SpecObject == InitObject /\ [][NextObject]_vars

----------------------------------------------------------------------------
(* Click counting on a bounce-free input: setup enables double-press       *)
(* detection and sets the window; loop calls update() and getClickCount(). *)
(* The input keeps every level for at least HoldTicks samples.             *)

\* the length of the run of equal samples that ends the sequence s
RECURSIVE RunLength(_)
RunLength(s) ==
    IF Len(s) <= 1
    THEN Len(s)
    ELSE IF s[Len(s)] # s[Len(s) - 1]
    THEN 1
    ELSE 1 + RunLength(SubSeq(s, 1, Len(s) - 1))

\* the input may read stateRaw next without bouncing
CanHold(stateRaw) ==
    IF samples = <<>>
    THEN TRUE
    ELSE IF readButtonRaw(button, stateRaw) = samples[Len(samples)]
    THEN TRUE
    ELSE RunLength(samples) >= HoldTicks

ClickUpdate ==
    /\ last.op \in {"setDoublePressWindow", "getClickCount"}
    /\ Len(samples) < ClickTicks
    /\ \E stateRaw \in BOOLEAN : CanHold(stateRaw) /\ UpdateCall(stateRaw, 1)
ClickGetClickCount == last.op = "update" /\ GetClickCountCall

NextClicks ==
    \/ Register
    \/ SetupDoublePress
    \/ SetupWindow
    \/ ClickUpdate
    \/ ClickGetClickCount

SpecClicks == Init /\ [][NextClicks]_vars

----------------------------------------------------------------------------
(* Either polarity: the button is constructed active HIGH or active LOW;   *)
(* setup and loop are those of the core sketch above.                      *)

InitPolarity ==
    /\ \E activeLevel \in {HIGH, LOW} : button = Debounce16(PIN_BUTTON, activeLevel)
    /\ now = ULongOf(0)
    /\ samples = <<>>
    /\ log = <<>>
    /\ last = [op |-> "Debounce16", result |-> FALSE]

SpecPolarity == InitPolarity /\ [][NextCore]_vars

----------------------------------------------------------------------------
(* The long-press sketch with the threshold equal to the release delay:    *)
(* setup enables long-press detection and sets the threshold to            *)
(* ReleaseDelay ms; loop calls update() and isLongPressed().               *)

SetupEdgeThreshold ==
    last.op = "enableLongPressDetection" /\ SetLongPressThresholdCall(ReleaseDelay)

PairedUpdate ==
    /\ last.op \in {"setLongPressThreshold", "isLongPressed"}
    /\ \E stateRaw \in BOOLEAN :
          CanSample(stateRaw, MaxTicks, MaxToggles) /\ UpdateCall(stateRaw, 1)
PairedIsLongPressed == last.op = "update" /\ IsLongPressedCall

NextPaired ==
    \/ Register
    \/ SetupLongPress
    \/ SetupEdgeThreshold
    \/ PairedUpdate
    \/ PairedIsLongPressed

SpecPaired == Init /\ [][NextPaired]_vars

----------------------------------------------------------------------------
(* The polling loop with both edges polled: features disabled, no          *)
(* handlers; every loop pass updates, then runs the body of                *)
(* if (button.isPressed()) and of if (button.isReleased()) when the query  *)
(* returns true. The body is recorded in log under the query's name.       *)

\* a query whose true result runs the body of the sketch's if statement
Report(op, r) ==
    /\ button' = r.obj
    /\ log' = IF r.result THEN log \o Stamp(<<op>>, Len(samples)) ELSE log
    /\ last' = [op |-> op, result |-> r.result]
    /\ UNCHANGED <<now, samples>>

PollUpdate ==
    /\ last.op \in {"Debounce16", "isReleased"}
    /\ \E stateRaw \in BOOLEAN :
          CanSample(stateRaw, MaxTicks, MaxToggles) /\ UpdateCall(stateRaw, 1)
PollIsPressed == last.op = "update" /\ Report("isPressed", isPressed(button))
PollIsReleased == last.op = "isPressed" /\ Report("isReleased", isReleased(button))

NextPoll ==
    \/ PollUpdate
    \/ PollIsPressed
    \/ PollIsReleased

SpecPoll == Init /\ [][NextPoll]_vars

----------------------------------------------------------------------------
(* The caller without a discipline: from the constructed object, update(), *)
(* the queries and the configuration calls in any order, either feature    *)
(* switched on and off at any time.                                        *)

FreeUpdate ==
    \E stateRaw \in BOOLEAN :
        CanSample(stateRaw, FreeTicks, FreeToggles) /\ UpdateCall(stateRaw, 1)
FreeIsPressed == IsPressedCall
FreeIsReleased == IsReleasedCall
FreeIsLongPressed == IsLongPressedCall
FreeGetClickCount == GetClickCountCall
FreeEnableDoublePress == \E enable \in BOOLEAN : EnableDoublePressDetectionCall(enable)
FreeEnableLongPress == \E enable \in BOOLEAN : EnableLongPressDetectionCall(enable)
FreeSetWindow == SetDoublePressWindowCall(ShortWindow)
FreeSetThreshold == SetLongPressThresholdCall(ShortThreshold)

NextFree ==
    \/ FreeUpdate
    \/ FreeIsPressed
    \/ FreeIsReleased
    \/ FreeIsLongPressed
    \/ FreeGetClickCount
    \/ FreeEnableDoublePress
    \/ FreeEnableLongPress
    \/ FreeSetWindow
    \/ FreeSetThreshold

SpecFree == Init /\ [][NextFree]_vars

----------------------------------------------------------------------------
(* Settling: a caller polls the two edge queries after update() and may    *)
(* switch a feature on (and set its time) at any point of the first        *)
(* PrefixTicks samples; from then on the input reads OFF, the features     *)
(* stay as they are and only update() is called, once per millisecond, for *)
(* QuietTicks more samples. The loop never stops: FairSettle.              *)

\* the history is 16 samples deep, and a window opened by the last release
\* pattern closes ShortWindow later
QuietTicks == 16 + ShortWindow

SettleEnableDoublePress ==
    /\ Len(samples) < PrefixTicks
    /\ last.op \notin {"enableDoublePressDetection", "enableLongPressDetection"}
    /\ ~button.flagEnableDoublePress
    /\ EnableDoublePressDetectionCall(TRUE)
SettleSetWindow ==
    last.op = "enableDoublePressDetection" /\ SetDoublePressWindowCall(ShortWindow)
SettleEnableLongPress ==
    /\ Len(samples) < PrefixTicks
    /\ last.op \notin {"enableDoublePressDetection", "enableLongPressDetection"}
    /\ ~button.flagEnableLongPress
    /\ EnableLongPressDetectionCall(TRUE)
SettleSetThreshold ==
    last.op = "enableLongPressDetection" /\ SetLongPressThresholdCall(ShortThreshold)

SettleIsPressed ==
    last.op = "update" /\ Len(samples) < PrefixTicks /\ IsPressedCall
SettleIsReleased ==
    last.op \in {"update", "isPressed"} /\ Len(samples) < PrefixTicks /\ IsReleasedCall

\* update() is the next call of the loop: no setter is pending, the run is
\* not over, and the quiet period is entered with a feature enabled
UpdateDue ==
    /\ last.op \notin {"enableDoublePressDetection", "enableLongPressDetection"}
    /\ Len(samples) < PrefixTicks + QuietTicks
    /\ Len(samples) >= PrefixTicks
       => button.flagEnableDoublePress \/ button.flagEnableLongPress

SettleUpdate ==
    /\ UpdateDue
    /\ \E stateRaw \in BOOLEAN :
          /\ IF Len(samples) < PrefixTicks
             THEN CanSample(stateRaw, PrefixTicks, SettleToggles)
             ELSE ~readButtonRaw(button, stateRaw)
          /\ UpdateCall(stateRaw, 1)

NextSettle ==
    \/ SettleEnableDoublePress
    \/ SettleSetWindow
    \/ SettleEnableLongPress
    \/ SettleSetThreshold
    \/ SettleIsPressed
    \/ SettleIsReleased
    \/ SettleUpdate

SpecSettle == Init /\ [][NextSettle]_vars

\* an update() call seen by what it records: one more sample. Within
\* SpecSettle these are the SettleUpdate steps, and one is possible exactly
\* when UpdateDue holds (the input may always keep its level, or read OFF
\* in the quiet period).
UpdateTaken ==
    UpdateDue /\ \E level \in BOOLEAN : samples' = Append(samples, level)

\* loop() is entered again and again, and setup() runs to its end: a due
\* update() is made, a setter that follows its enable call is made
FairSettle ==
    /\ SpecSettle
    /\ WF_samples(UpdateTaken)
    /\ WF_vars(SettleSetWindow)
    /\ WF_vars(SettleSetThreshold)

----------------------------------------------------------------------------
(* The interrupt sketch (examples/DebounceSimpleInterrupt) with            *)
(* double-press detection enabled: onTimer() calls update() and may        *)
(* preempt loop() between any two memory accesses of its isPressed() call. *)
(* The position of the main-loop call and the value it has just read are   *)
(* kept in last: "isPressed:pattern" after the pattern test of line 96,    *)
(* "isPressed:guard" after the guard test of line 96, "isPressed:else"     *)
(* after the test of line 104, "isPressed" after the return. The members   *)
(* are not volatile: the test of line 104 may read historyButton again or  *)
(* reuse the value read for line 96.                                       *)

\* onTimer(): update() in interrupt context; the interrupted call resumes
\* where it was
Interrupt ==
    /\ last.op \in {"setDoublePressWindow", "isPressed", "isPressed:pattern",
                    "isPressed:guard", "isPressed:else"}
    /\ \E stateRaw \in BOOLEAN :
          LET currentTime == AddULong(now, 1)
              r == update(button, stateRaw, currentTime)
          IN  /\ CanSample(stateRaw, RaceTicks, RaceToggles)
              /\ now' = currentTime
              /\ button' = r.obj
              /\ samples' = Append(samples, readButtonRaw(button, stateRaw))
              /\ log' = log \o Stamp(r.calls, Len(samples) + 1)
              /\ UNCHANGED last

\* line 96, left operand: (historyButton & MASK_PRESS) == PATTERN_PRESS
MainTestPattern ==
    /\ last.op \in {"setDoublePressWindow", "isPressed"}
    /\ last' = [op |-> "isPressed:pattern",
                result |-> PressPattern(button.historyButton)]
    /\ UNCHANGED <<button, now, samples, log>>

\* line 96, right operand: !flagPressProcessed
MainTestGuard ==
    /\ last.op = "isPressed:pattern" /\ last.result
    /\ last' = [op |-> "isPressed:guard", result |-> ~button.flagPressProcessed]
    /\ UNCHANGED <<button, now, samples, log>>

\* lines 98-102: the guard write, the callback, return true
MainSetGuard ==
    /\ last.op = "isPressed:guard" /\ last.result
    /\ button' = [button EXCEPT !.flagPressProcessed = TRUE]
    /\ log' = log \o Stamp(triggerCallback(button.callbackPress), Len(samples))
    /\ last' = [op |-> "isPressed", result |-> TRUE]
    /\ UNCHANGED <<now, samples>>

\* line 104: (historyButton & MASK_PRESS) != PATTERN_PRESS, on a fresh read
\* or on the value line 96 read
MainTestElse ==
    /\ last.op \in {"isPressed:pattern", "isPressed:guard"} /\ ~last.result
    /\ \E reread \in BOOLEAN :
          last' = [op |-> "isPressed:else",
                   result |-> IF reread
                              THEN ~PressPattern(button.historyButton)
                              ELSE last.op = "isPressed:pattern"]
    /\ UNCHANGED <<button, now, samples, log>>

\* lines 106-109: the guard clear when the test of line 104 held, return false
MainClearGuard ==
    /\ last.op = "isPressed:else"
    /\ button' = IF last.result
                 THEN [button EXCEPT !.flagPressProcessed = FALSE]
                 ELSE button
    /\ last' = [op |-> "isPressed", result |-> FALSE]
    /\ UNCHANGED <<now, samples, log>>

RaceSetup == samples = <<>> /\ (Register \/ SetupDoublePress \/ SetupWindow)

NextRace ==
    \/ RaceSetup
    \/ Interrupt
    \/ MainTestPattern
    \/ MainTestGuard
    \/ MainSetGuard
    \/ MainTestElse
    \/ MainClearGuard

SpecRace == Init /\ [][NextRace]_vars

----------------------------------------------------------------------------
(* The callback sketch started shortly before millis() rolls over: the     *)
(* first update() is made k ms before the counter wraps to 0, for every k  *)
(* up to MaxTicks (k = 0: the counter starts at 0 and does not wrap in the *)
(* run). setup() is that of the reconfiguring session, loop() only calls   *)
(* update().                                                               *)

\* the value of millis() k ms before it wraps: 2^32 - k
BeforeRollover(k) ==
    IF k = 0 THEN ULongOf(0) ELSE [hi |-> Word16 - 1, lo |-> Word16 - k]

InitRollover ==
    /\ button = Debounce16(PIN_BUTTON, HIGH)
    /\ now \in {BeforeRollover(k) : k \in 0..MaxTicks}
    /\ samples = <<>>
    /\ log = <<>>
    /\ last = [op |-> "Debounce16", result |-> FALSE]

RolloverUpdate ==
    /\ SetupDone \/ last.op = "update"
    /\ \E stateRaw \in BOOLEAN :
          CanSample(stateRaw, MaxTicks, RolloverToggles) /\ UpdateCall(stateRaw, 1)

NextRollover == SessionSetup \/ RolloverUpdate

SpecRollover == InitRollover /\ [][NextRollover]_vars

----------------------------------------------------------------------------
(* Vocabulary of the properties *)

\* the callbacks logged for handler fn
Invocations(fn) == SelectSeq(log, LAMBDA e : e.fn = fn)

\* handler fn ran during the call that admitted sample number n
InvokedAt(fn, n) == \E i \in 1..Len(log) : log[i] = [fn |-> fn, at |-> n]

\* the press and release edges the callbacks reported, in order
Edges == SelectSeq(log, LAMBDA e : e.fn \in {"onButtonPress", "onButtonRelease"})

\* the last 16 samples, the input counting as OFF before the first one
Last16AllOn(s) == Len(s) >= 16 /\ \A i \in (Len(s) - 15)..Len(s) : s[i]
Last16AllOff(s) == \A i \in 1..Len(s) : i > Len(s) - 16 => ~s[i]

\* s is six ON samples followed by OFF samples only
SixOnThenOff(s) == Len(s) >= 6 /\ \A i \in 1..Len(s) : s[i] <=> i <= 6

AllOn(s) == \A i \in 1..Len(s) : s[i]

FeaturesEnabled == button.flagEnableDoublePress \/ button.flagEnableLongPress

----------------------------------------------------------------------------
(* Properties *)

\* C1: with double-press detection enabled (window ShortWindow) and update()
\* called every tick, after the edges press, release, press, release, the
\* second press less than the window after the first release (the input
\* pressed and released twice), the first isDoublePressed() call after the
\* window has expired returns true.
DoublePressGesture ==
    /\ Len(Edges) = 4
    /\ Edges[1].fn = "onButtonPress" /\ Edges[2].fn = "onButtonRelease"
    /\ Edges[3].fn = "onButtonPress" /\ Edges[4].fn = "onButtonRelease"
    /\ Edges[3].at - Edges[2].at < ShortWindow
    /\ Toggles(samples) = 4 /\ ~samples[Len(samples)]

C1_DoublePressReported ==
    ( /\ DoublePressGesture
      /\ Len(samples) = Edges[4].at + ShortWindow
      /\ last.op = "isDoublePressed" )
    => last.result = TRUE

\* C2: with long-press detection enabled (threshold LongThreshold, longer than
\* the 16-sample history) and update() called every tick, once the input has
\* been held ON for the threshold after the press edge, the long-press-start
\* callback has run exactly once and isLongPressed() returns true.
C2_LongPressOnHold ==
    ( /\ AllOn(samples)
      /\ Len(samples) >= 6 + LongThreshold
      /\ button.flagEnableLongPress )
    => /\ Len(Invocations("onButtonLongPressStart")) = 1
       /\ last.op = "isLongPressed" => last.result = TRUE

\* C3: isReleased() returns true only when the history is exactly 0xFC00
\* (bits 15..10 ON, bits 9..0 OFF), and never while isDown() holds.
C3_ReleaseOnlyOnPattern ==
    (last.op = "isReleased" /\ last.result = TRUE)
    => /\ button.historyButton = PATTERN_RELEASE
       /\ ~isDown(button).result

\* C4: with both features disabled and isPressed() polled once after every
\* update(), isPressed() returns true exactly on the poll after the 6th sample
\* of a maximal run of ON samples, and on no other poll.
C4_PressEdgeOncePerRun ==
    (last.op = "isPressed" /\ ~FeaturesEnabled)
    => (last.result = TRUE <=> TrailingOn(samples) = 6)

C4_Witness ==
    /\ last.op = "isPressed" /\ last.result = TRUE
    /\ ~FeaturesEnabled
    /\ Toggles(samples) = 3

\* C5: a registered press callback runs inside the update() call that admits
\* the sample completing the press pattern, and a registered release callback
\* inside the update() call after which the history is the release pattern,
\* for a caller that only calls update().
C5_CallbacksFromUpdate ==
    last.op = "update"
    => /\ (TrailingOn(samples) = 6 /\ button.callbackPress # nullptr)
          => InvokedAt(button.callbackPress, Len(samples))
       /\ (button.historyButton = PATTERN_RELEASE /\ button.callbackRelease # nullptr)
          => InvokedAt(button.callbackRelease, Len(samples))

\* C6: while double-press or long-press detection is enabled, isPressed()
\* polled once after every update() still returns true exactly on the poll
\* after the 6th sample of a maximal run of ON samples.
C6_CoreEdgeWithFeatures ==
    (last.op = "isPressed" /\ FeaturesEnabled)
    => (last.result = TRUE <=> TrailingOn(samples) = 6)

\* C7: with features disabled and update() and isPressed() in any order, an
\* isPressed() call made right after the update() that completed the press
\* pattern (the 6th ON sample of a run) returns true, whether or not
\* isPressed() was called while the pattern was broken.
C7_EdgeRearmsWithoutPoll ==
    [][ ( /\ last.op = "update"
          /\ TrailingOn(samples) = 6
          /\ last'.op = "isPressed" )
        => last'.result = TRUE ]_vars

\* C8: on a fresh filter with features disabled and isPressed(), isReleased()
\* polled after every update(), six ON samples followed by OFF samples give a
\* true isPressed() after the 6th sample only, and a true isReleased() after
\* the 10th OFF sample only, the history then being the release pattern.
C8_RoundTrip ==
    SixOnThenOff(samples)
    => /\ last.op = "isPressed" => (last.result = TRUE <=> Len(samples) = 6)
       /\ last.op = "isReleased" => (last.result = TRUE <=> Len(samples) = 16)
       /\ (last.op = "isReleased" /\ last.result = TRUE)
          => button.historyButton = PATTERN_RELEASE

C8_Witness ==
    /\ SixOnThenOff(samples)
    /\ Len(samples) = 16
    /\ last.op = "isReleased" /\ last.result = TRUE

\* C9: in every state isDown() is true iff the last 16 admitted samples were
\* all ON and isUp() iff they were all OFF (OFF before construction), and
\* neither query changes the object or invokes a callback.
C9_SteadyQueries ==
    /\ isDown(button).result <=> Last16AllOn(samples)
    /\ isUp(button).result <=> Last16AllOff(samples)
    /\ isDown(button).obj = button /\ isDown(button).calls = <<>>
    /\ isUp(button).obj = button /\ isUp(button).calls = <<>>
    /\ last.op = "isDown" => (last.result = TRUE <=> Last16AllOn(samples))
    /\ last.op = "isUp" => (last.result = TRUE <=> Last16AllOff(samples))

C9_Witness ==
    /\ last.op = "isDown" /\ last.result = TRUE
    /\ Len(samples) > 16 /\ ~samples[1]

\* the state the constructor leaves
AsConstructed ==
    /\ button.historyButton = 0
    /\ button.stateButton = STATE_IDLE
    /\ button.countClick = 0
    /\ ~button.flagDoublePressed /\ ~button.flagLongPressed
    /\ ~button.flagPressProcessed /\ ~button.flagReleaseProcessed
    /\ ~button.flagEnableDoublePress /\ ~button.flagEnableLongPress
    /\ button.windowDoublePress = 300
    /\ button.thresholdLongPress = 1000

\* C10 as stated: after construction the history is all zero, the phase
\* Idle, the click count 0, all flags clear, both features disabled, the
\* window 300 and the threshold 1000; until 6 ON samples have been admitted
\* isUp() is true, isPressed() and isReleased() do not return true and no
\* callback runs.
C10_QuietUntilSixOn ==
    /\ last.op = "Debounce16" => AsConstructed
    /\ OnCount(samples) < 6
       => /\ isUp(button).result
          /\ log = <<>>
          /\ ~isPressed(button).result
          /\ ~isReleased(button).result
          /\ last.op \in {"isPressed", "isReleased"} => last.result = FALSE

\* C10, amended: as above, but isUp() is true only until the first ON sample
\* is admitted; the edge queries and the callbacks stay silent until 6 ON
\* samples have been admitted.
C10_QuietStart ==
    /\ OnCount(samples) = 0 => isUp(button).result
    /\ last.op = "Debounce16"
       => /\ button.historyButton = 0
          /\ button.stateButton = STATE_IDLE
          /\ button.countClick = 0
          /\ ~button.flagDoublePressed /\ ~button.flagLongPressed
          /\ ~button.flagPressProcessed /\ ~button.flagReleaseProcessed
          /\ ~button.flagEnableDoublePress /\ ~button.flagEnableLongPress
          /\ button.windowDoublePress = 300
          /\ button.thresholdLongPress = 1000
          /\ isUp(button).result
    /\ OnCount(samples) < 6
       => /\ log = <<>>
          /\ ~isPressed(button).result
          /\ ~isReleased(button).result
          /\ last.op \in {"isPressed", "isReleased"} => last.result = FALSE

C10_Witness ==
    /\ OnCount(samples) = 5
    /\ Toggles(samples) = 3
    /\ button.flagEnableDoublePress /\ button.flagEnableLongPress
    /\ button.callbackPress # nullptr
    /\ last.op = "isPressed"

\* C11: once double-press detection has been disabled while long-press
\* detection stays enabled, the button counts clicks like one on which
\* double-press detection was never enabled: the click count is 0 or 1, never
\* 2, and the double-press flag is clear.
C11_DisableForgetsClicks ==
    ( /\ ~button.flagEnableDoublePress
      /\ button.flagEnableLongPress
      /\ samples # <<>> )
    => /\ button.countClick <= 1
       /\ ~button.flagDoublePressed

\* C12: with double-press detection enabled (window ShortWindow), when the
\* second press edge comes ShortWindow or more after the first release edge,
\* no double press is reported (flag clear, double-press callback not invoked)
\* and the late press is counted as a first click: the click count is 1.
LatePress ==
    /\ Len(Edges) = 3
    /\ Edges[1].fn = "onButtonPress" /\ Edges[2].fn = "onButtonRelease"
    /\ Edges[3].fn = "onButtonPress"
    /\ Edges[3].at - Edges[2].at >= ShortWindow
    /\ Len(samples) = Edges[3].at

C12_LatePressIsFirstClick ==
    LatePress
    => /\ button.countClick = 1
       /\ ~button.flagDoublePressed
       /\ Len(Invocations("onButtonDoublePress")) = 0

\* C13: with double-press detection enabled (window ShortWindow), after one
\* press edge and one release edge and no second press edge, the
\* getClickCount() call that follows the update() on which the window expired
\* (the machine being back in Idle) returns 1.
SingleClick ==
    /\ Len(Edges) = 2
    /\ Edges[1].fn = "onButtonPress" /\ Edges[2].fn = "onButtonRelease"
    /\ Len(samples) = Edges[2].at + ShortWindow
    /\ button.stateButton = STATE_IDLE

C13_SingleClickCounted ==
    (SingleClick /\ last.op = "getClickCount") => last.result = 1

\* C14: the long-press-start callback runs only when every sample admitted
\* during the threshold before it (thresholdLongPress ms, one sample per ms)
\* was ON: a press released before the threshold elapsed is never classified
\* as a long press, for thresholds shorter than the history too.
HeldBefore(n) ==
    \A k \in (n - button.thresholdLongPress)..n : k >= 1 /\ samples[k]

C14_LongPressOnlyWhileHeld ==
    \A i \in 1..Len(log) :
        log[i].fn = "onButtonLongPressStart" => HeldBefore(log[i].at)

\* C15: isDoublePressed() is a read-and-clear one-shot: it returns the flag
\* and leaves it clear, changing nothing else, so that of two calls in a row
\* only the first can return true; isLongPressed() returns the long-press
\* flag and changes nothing.
C15_OneShotRead ==
    [][ /\ last'.op = "isDoublePressed"
           => /\ last'.result = button.flagDoublePressed
              /\ button' = [button EXCEPT !.flagDoublePressed = FALSE]
              /\ log' = log
              /\ last.op = "isDoublePressed" => ~(last.result /\ last'.result)
        /\ last'.op = "isLongPressed"
           => /\ last'.result = button.flagLongPressed
              /\ button' = button
              /\ log' = log ]_vars

C15_Witness ==
    /\ last.op = "isDoublePressed" /\ last.result = TRUE
    /\ button.countClick = 2
    /\ ~isDoublePressed(button).result

\* C16: getClickCount() returns the counter; it leaves the object unchanged
\* whenever the machine is not in Idle, changes the counter only in Idle and
\* then to 0, and never changes any other member nor invokes a callback.
C16_ClickCountRead ==
    [][ last'.op = "getClickCount"
        => /\ last'.result = button.countClick
           /\ button.stateButton # STATE_IDLE => button' = button
           /\ button'.countClick # button.countClick
              => button.stateButton = STATE_IDLE /\ button'.countClick = 0
           /\ [button' EXCEPT !.countClick = button.countClick] = button
           /\ log' = log ]_vars

C16_Witness ==
    /\ last.op = "getClickCount" /\ last.result = 2
    /\ button.stateButton = STATE_PRESS_FIRST
    /\ button.countClick = 2

\* C17: the configuration calls are pure setters.  setDoublePressWindow and
\* setLongPressThreshold change only the stored value;
\* enableDoublePressDetection changes only its enable flag and, when
\* disabling, the click count (to 0) and the double-press flag (cleared);
\* enableLongPressDetection changes only its enable flag and, when disabling,
\* the long-press flag (cleared).  None of them invokes a callback.
C17_PureSetters ==
    [][ /\ last'.op = "setDoublePressWindow"
           => /\ [button' EXCEPT !.windowDoublePress = button.windowDoublePress] = button
              /\ log' = log
        /\ last'.op = "setLongPressThreshold"
           => /\ [button' EXCEPT !.thresholdLongPress = button.thresholdLongPress] = button
              /\ log' = log
        /\ last'.op = "enableDoublePressDetection"
           => /\ \/ button' = [button EXCEPT !.flagEnableDoublePress = TRUE]
                 \/ button' = [button EXCEPT !.flagEnableDoublePress = FALSE,
                                             !.countClick = 0,
                                             !.flagDoublePressed = FALSE]
              /\ log' = log
        /\ last'.op = "enableLongPressDetection"
           => /\ \/ button' = [button EXCEPT !.flagEnableLongPress = TRUE]
                 \/ button' = [button EXCEPT !.flagEnableLongPress = FALSE,
                                             !.flagLongPressed = FALSE]
              /\ log' = log ]_vars

C17_Witness ==
    /\ last.op = "enableDoublePressDetection"
    /\ ~button.flagEnableDoublePress
    /\ button.stateButton = STATE_RELEASE_FIRST
    /\ button.countClick = 0
    /\ button.flagLongPressed = FALSE /\ button.flagEnableLongPress

ThirdPressInWindow ==
    /\ Len(Edges) = 5
    /\ \A i \in 1..5 :
          Edges[i].fn = (IF i % 2 = 1 THEN "onButtonPress" ELSE "onButtonRelease")
    /\ Edges[3].at - Edges[2].at < ShortWindow
    /\ Edges[5].at - Edges[4].at < ShortWindow

C20_ClickCountRange ==
    /\ button.countClick \in 0..2
    /\ last.op = "getClickCount" => last.result \in 0..2
    /\ ThirdPressInWindow => button.countClick = 2

C20_Witness ==
    /\ ThirdPressInWindow
    /\ button.stateButton = STATE_PRESS_FIRST
    /\ last.op = "getClickCount" /\ last.result = 2

\* C21: the members the tick path writes are written only inside update():
\* the queries isPressed(), isReleased(), isDown(), isUp() leave the object
\* as they found it.
Queries ==
    { "isPressed", "isReleased", "isDown", "isUp", "isDoublePressed",
      "isLongPressed", "getClickCount" }

C21_QueriesOnlyRead ==
    [][ last'.op \in Queries => button' = button ]_vars

\* C22: every update() reads some pin level stateRaw and admits ON iff
\* stateRaw equals the configured active level (the new bit 0 of the history
\* and the recorded sample), and an instance of the opposite polarity fed the
\* opposite pin level makes the same step: same members afterwards, same
\* callbacks; isPressed() does not depend on the polarity either.
Mirror(b) == [b EXCEPT !.levelActive = ~b.levelActive]

C22_Polarity ==
    [][ /\ last'.op = "update"
           => \E stateRaw \in BOOLEAN :
                 /\ button' = update(button, stateRaw, now').obj
                 /\ samples'[Len(samples')] = (stateRaw = button.levelActive)
                 /\ button'.historyButton % 2
                       = (IF stateRaw = button.levelActive THEN 1 ELSE 0)
                 /\ update(Mirror(button), ~stateRaw, now')
                       = [obj |-> Mirror(button'), result |-> FALSE,
                          calls |-> update(button, stateRaw, now').calls]
        /\ last'.op = "isPressed"
           => isPressed(Mirror(button))
                 = [obj |-> Mirror(button'), result |-> last'.result,
                    calls |-> isPressed(button).calls] ]_vars

C22_Witness ==
    /\ button.levelActive = LOW
    /\ last.op = "isPressed" /\ last.result = TRUE
    /\ TrailingOn(samples) = 6 /\ Toggles(samples) = 3

\* C23: each update() admits exactly one sample, history' = (2 * history +
\* sample) mod 2^16 (the newest sample in bit 0, the previous bit 15
\* discarded), and no other call (query, setter, registration) changes the
\* history or admits a sample.
C23_OneSamplePerUpdate ==
    [][ IF last'.op = "update"
        THEN /\ Len(samples') = Len(samples) + 1
             /\ button'.historyButton
                   = (2 * button.historyButton
                        + (IF samples'[Len(samples')] THEN 1 ELSE 0)) % 65536
             /\ button'.historyButton \in 0..65535
        ELSE /\ button'.historyButton = button.historyButton
             /\ samples' = samples ]_vars

\* an ON sample has just been shifted out of bit 15
C23_Witness ==
    /\ last.op = "update"
    /\ Len(samples) >= 17
    /\ samples[Len(samples) - 16] /\ ~samples[Len(samples) - 15]
    /\ samples[Len(samples)]
    /\ button.historyButton < 32768 /\ button.historyButton % 2 = 1
    /\ FeaturesEnabled

\* C24: when an update() made in PRESS_FIRST reports the release edge and
\* flags no long press, it records the reference timestamp (timeEvent = now)
\* and moves to RELEASE_FIRST with the click count kept if double-press
\* detection is enabled, to Idle with click count 0 if it is disabled.
C24_ReleaseInPressFirst ==
    [][ ( /\ last'.op = "update"
          /\ button.stateButton = STATE_PRESS_FIRST
          /\ \E i \in (Len(log) + 1)..Len(log') : log'[i].fn = "onButtonRelease"
          /\ \A i \in (Len(log) + 1)..Len(log') : log'[i].fn # "onButtonLongPressStart" )
        => /\ button'.timeEvent = now'
           /\ IF button.flagEnableDoublePress
              THEN /\ button'.stateButton = STATE_RELEASE_FIRST
                   /\ button'.countClick = button.countClick
              ELSE /\ button'.stateButton = STATE_IDLE
                   /\ button'.countClick = 0 ]_vars

C24_Witness ==
    /\ last.op = "update"
    /\ InvokedAt("onButtonRelease", Len(samples))
    /\ button.stateButton = STATE_RELEASE_FIRST
    /\ button.countClick = 1
    /\ button.timeEvent = now /\ now # ULongOf(0)

\* the sample count at the last release edge reported so far (0 if none)
LastReleaseAt ==
    LET r == Invocations("onButtonRelease")
    IN  IF r = <<>> THEN 0 ELSE r[Len(r)].at

\* C25: an update() made in RELEASE_FIRST that reports a press edge while
\* now - timeEvent < windowDoublePress moves to PRESS_FIRST with click count 2
\* and timePress = now; and the click count becomes 2 by no other step: only
\* in such an update(), the press edge less than the window after the
\* release edge before it.
C25_SecondClickInsideWindow ==
    [][ /\ ( /\ last'.op = "update"
              /\ button.stateButton = STATE_RELEASE_FIRST
              /\ \E i \in (Len(log) + 1)..Len(log') : log'[i].fn = "onButtonPress"
              /\ LtULong(SubULong(now', button.timeEvent), button.windowDoublePress) )
           => /\ button'.stateButton = STATE_PRESS_FIRST
              /\ button'.countClick = 2
              /\ button'.timePress = now'
        /\ (button'.countClick = 2 /\ button.countClick # 2)
           => /\ last'.op = "update"
              /\ button.stateButton = STATE_RELEASE_FIRST
              /\ button'.stateButton = STATE_PRESS_FIRST
              /\ \E i \in (Len(log) + 1)..Len(log') : log'[i].fn = "onButtonPress"
              /\ LastReleaseAt > 0
              /\ Len(samples') - LastReleaseAt < button.windowDoublePress ]_vars

C25_Witness ==
    /\ last.op = "update"
    /\ InvokedAt("onButtonPress", Len(samples))
    /\ button.stateButton = STATE_PRESS_FIRST
    /\ button.countClick = 2
    /\ button.timePress = now
    /\ button.flagEnableDoublePress

C27_LongPressPaired ==
    LET starts == Len(Invocations("onButtonLongPressStart"))
        ends == Len(Invocations("onButtonLongPressEnd"))
    IN  /\ ends <= starts
        /\ starts <= ends + 1
        /\ button.stateButton = STATE_IDLE => starts = ends

\* C28: the reserved phases STATE_WAIT_DOUBLE_PRESS and
\* STATE_WAIT_LONG_PRESS are dead: in every reachable state the phase is
\* Idle, PRESS_FIRST, RELEASE_FIRST or LONG_PRESS_ACTIVE.
C28_ReservedPhasesDead ==
    button.stateButton \in
        { STATE_IDLE, STATE_PRESS_FIRST, STATE_RELEASE_FIRST,
          STATE_LONG_PRESS_ACTIVE }

\* with both features enabled the machine has left PRESS_FIRST for
\* LONG_PRESS_ACTIVE, the phase entered last
C28_Witness ==
    /\ button.stateButton = STATE_LONG_PRESS_ACTIVE
    /\ button.flagEnableDoublePress
    /\ InvokedAt("onButtonLongPressStart", Len(samples))
    /\ last.op = "update"

\* C29: no press edge is dropped by the state machine: after an update()
\* during which the press handler ran, the machine is in PRESS_FIRST with a
\* click count of 1 or 2, also when the press edge comes in RELEASE_FIRST on
\* the update() on which the window expires.
C29_PressEdgeCounted ==
    (last.op = "update" /\ InvokedAt("onButtonPress", Len(samples)))
    => /\ button.stateButton = STATE_PRESS_FIRST
       /\ button.countClick \in {1, 2}
       /\ button.countClick = 1 => button.timePress = now

\* C30: with both features disabled and isPressed() and isReleased() each
\* polled once after every update(), the true results strictly alternate
\* starting with a press: one release between two presses, no release
\* before the first press.
C30_EdgesAlternate ==
    \A i \in 1..Len(log) :
        log[i].fn = IF i % 2 = 1 THEN "isPressed" ELSE "isReleased"

\* C31: at every operation boundary, whatever the order of update(), queries
\* and configuration calls, isLongPressed() true (flagLongPressed) implies
\* the phase LONG_PRESS_ACTIVE; the flag is never set in Idle or
\* RELEASE_FIRST.
C31_LongFlagOnlyWhenActive ==
    /\ isLongPressed(button).result => button.stateButton = STATE_LONG_PRESS_ACTIVE
    /\ (last.op = "isLongPressed" /\ last.result)
       => button.stateButton = STATE_LONG_PRESS_ACTIVE

\* isLongPressed() has just returned true, after double-press detection was
\* switched on during the press
C31_Witness ==
    /\ last.op = "isLongPressed" /\ last.result
    /\ button.stateButton = STATE_LONG_PRESS_ACTIVE
    /\ button.flagEnableDoublePress
    /\ button.thresholdLongPress = ShortThreshold

\* the machine is at rest: Idle, no click counted, isLongPressed() false
Settled ==
    /\ button.stateButton = STATE_IDLE
    /\ button.countClick = 0
    /\ ~isLongPressed(button).result

\* C32: liveness: once the input stays OFF, a feature stays enabled and
\* update() keeps being called, the machine eventually reaches Idle and
\* stays there with click count 0 and isLongPressed() false.
C32_EventuallyIdle == <>[]Settled

\* the entries into the pressed pattern in s: the samples that complete six
\* ON samples in a row after an OFF sample or the start
PatternEntries(s) ==
    Cardinality({ i \in 6..Len(s) :
                    /\ \A j \in (i - 5)..i : s[j]
                    /\ i = 6 \/ ~s[i - 6] })

\* C33: with update() in a timer interrupt that may preempt a main-loop
\* isPressed() call between its pattern test, its guard test and its guard
\* write, one entry into the pressed pattern gives at most one press edge:
\* the press handler does not run more often than the pattern was entered.
C33_OneEdgePerEntry ==
    Len(Invocations("onButtonPress")) <= PatternEntries(samples)

\* the sample at which the press handler ran last (0: never)
LastPressAt ==
    LET p == Invocations("onButtonPress")
    IN  IF p = <<>> THEN 0 ELSE p[Len(p)].at

\* C34: elapsed times are taken modulo the width of millis(), so a window
\* or a threshold that spans the rollover is evaluated as on an unbounded
\* clock (the count of 1 ms samples): a long press starts on the update()
\* on which the samples since the press edge reach thresholdLongPress, the
\* window expires on the update() on which the samples since the release
\* edge reach windowDoublePress, and neither happens earlier or later.
C34_RolloverExact ==
    [][ last'.op = "update" =>
          LET n == Len(samples')
              started == \E i \in (Len(log) + 1)..Len(log') :
                             log'[i].fn = "onButtonLongPressStart"
          IN  /\ ( /\ button.stateButton = STATE_PRESS_FIRST
                   /\ button.flagEnableLongPress
                   /\ ~button.flagLongPressed )
                 => (started <=> n - LastPressAt >= button.thresholdLongPress)
              /\ started => n - LastPressAt = button.thresholdLongPress
              /\ button.stateButton = STATE_RELEASE_FIRST
                 => ( button'.stateButton = STATE_IDLE
                      <=> n - LastReleaseAt >= button.windowDoublePress )
              /\ ( /\ button.stateButton = STATE_RELEASE_FIRST
                   /\ button'.stateButton = STATE_IDLE )
                 => n - LastReleaseAt = button.windowDoublePress ]_vars

\* a long press has just started: the press edge was taken before the
\* rollover of millis(), the threshold was reached after it
C34_Witness ==
    /\ InvokedAt("onButtonLongPressStart", Len(samples))
    /\ button.timePress.hi = Word16 - 1
    /\ now.hi = 0
    /\ button.stateButton = STATE_LONG_PRESS_ACTIVE

====
